---- MODULE Spec2Model ----
(***************************************************************************)
(* Cryptalyze: the real-time candle pipeline of src/real_time.py           *)
(* (BinanceRealtimeData, ContinuousDataStreamer) together with the archive *)
(* reader of src/data_processor.py that seeds it, and the one-shot loader  *)
(* of src/load_historical.py, which lists the archive, downloads it and    *)
(* upserts it into DuckDB.                                                 *)
(*                                                                         *)
(* A row of a DataFrame is the record [open_time, close]; `close` stands   *)
(* for the value columns, which the code copies together and never        *)
(* separately.  A DataFrame is the sequence of its rows, in row order.     *)
(* Wall-clock time is counted in minutes.                                  *)
(***************************************************************************)
EXTENDS Integers, Sequences, FiniteSets, TLC

VARIABLES
    pc,              \* position of run_continuous_stream
    files,           \* the archive listing read by get_polars_df
    today_df,        \* get_complete_today_data: today_df
    yesterday_last,  \* get_complete_today_data: yesterday_last, as concatenated
    combined_df,     \* ContinuousDataStreamer.combined_df
    live_candles,    \* ContinuousDataStreamer.live_candles
    now,             \* datetime.now()
    last_save_time,  \* ContinuousDataStreamer.last_save_time
    saved,           \* the DataFrames written by write_csv, in order
    message,         \* the message last read off the websocket
    received,        \* number of messages read off the websocket
    errors,          \* number of "Error processing WebSocket message" lines
    stream_error,    \* why stream_live_data raised, if it did
    trailing_raised, \* get_complete_today_data: the except of line 97 was taken
    save_errors,     \* number of "Error saving data" lines
    final_saves,     \* number of save_data calls of run_continuous_stream
    connects,        \* number of websockets.connect calls
    lpc,             \* position of load_historical.main
    pages,           \* the pages of the S3 listing, as the server holds them
    continuation_token, \* get_file_list_from_s3_bucket: continuation_token
    requests,        \* the continuation tokens of the requests sent, in order
    file_names,      \* get_file_list_from_s3_bucket: filenames
    n_files,         \* the nfiles argument of get_polars_df
    downloads,       \* the files read by download_file, in order
    historical_df,   \* load_historical.main: historical_df
    table,           \* the rows of the DuckDB table klines
    updates,         \* the DataFrame of the last upsert_data call
    upserts,         \* number of upsert_data calls
    db_errors        \* number of exceptions raised by con.execute

streamer_vars == <<pc, files, today_df, yesterday_last, combined_df, live_candles, now,
                   last_save_time, saved, message, received, errors, stream_error,
                   trailing_raised, save_errors, final_saves, connects>>

loader_vars == <<lpc, pages, continuation_token, requests, file_names, n_files,
                 downloads, historical_df, table, updates, upserts, db_errors>>

vars == <<pc, files, today_df, yesterday_last, combined_df, live_candles, now,
          last_save_time, saved, message, received, errors, stream_error,
          trailing_raised, save_errors, final_saves, connects,
          lpc, pages, continuation_token, requests, file_names, n_files,
          downloads, historical_df, table, updates, upserts, db_errors>>

(***************************************************************************)
(* Bounds of the model.                                                    *)
(***************************************************************************)
MaxUpdates == 2
MaxFeedUpdates == 3
MaxClock == 5
MaxFiles == 2
MaxSaveUpdates == 2
MaxSaveClock == 10
MaxRows == 2
MaxUpserts == 2
MaxPages == 2
MaxDays == 2

(***************************************************************************)
(* Program constants.                                                      *)
(***************************************************************************)
TrailingCount == 10
SaveIntervalMinutes == 5

Row(t, c) == [open_time |-> t, close |-> c]

(***************************************************************************)
(* Sequence helpers.                                                       *)
(***************************************************************************)
Keys(df) == {df[i].open_time : i \in DOMAIN df}

RowsAt(df, t) == {i \in DOMAIN df : df[i].open_time = t}

StrictlyAscending(df) ==
    \A i \in DOMAIN df : \A j \in DOMAIN df : i < j => df[i].open_time < df[j].open_time

\* DataFrame.tail(n)
tail(df, n) == IF Len(df) <= n THEN df ELSE SubSeq(df, Len(df) - n + 1, Len(df))

\* DataFrame.is_empty()
is_empty(df) == Len(df) = 0

(***************************************************************************)
(* The archive: daily files named by date, so that the sorted listing is   *)
(* chronological.  File 0 is an empty file, file 1 an old day of twelve    *)
(* candles, file 2 the day before today, whose last candle has the         *)
(* open_time of today's first candle.                                      *)
(***************************************************************************)
ArchiveFiles == 0 .. 2

FileRows(f) ==
    CASE f = 1 -> [i \in 1 .. 12 |-> Row(10 * i, 100)]
      [] f = 2 -> <<Row(900, 100), Row(1000, 101)>>
      [] OTHER -> <<>>

\* get_file_list_from_s3_bucket returns the listing sorted
Listings ==
    {fl \in UNION {[1 .. n -> ArchiveFiles] : n \in 0 .. MaxFiles} :
        \A i \in DOMAIN fl : \A j \in DOMAIN fl : i < j => fl[i] < fl[j]}

\* the REST endpoint's answer for the current day
TodayResponses == {<<>>, <<Row(1000, 100), Row(2000, 100)>>}

RECURSIVE ConcatFiles(_)
ConcatFiles(urls) ==
    IF Len(urls) = 0 THEN <<>>
    ELSE FileRows(Head(urls)) \o ConcatFiles(Tail(urls))

NoLimit == -1

\* list[:n] of Python, n >= 0
Slice(urls, n) == SubSeq(urls, 1, IF n < Len(urls) THEN n ELSE Len(urls))

\* get_polars_df raises IndexError on download_urls[0] when the listing is empty
get_polars_df_raises(filenames) == Len(filenames) = 0

\* get_polars_df: the first file of the listing is always read; the others
\* are those of download_urls[:nfiles][1:]
get_polars_df(filenames, nfiles) ==
    LET download_urls == IF nfiles = NoLimit THEN filenames ELSE Slice(filenames, nfiles)
    IN  FileRows(filenames[1]) \o
        (IF Len(download_urls) = 0 THEN <<>> ELSE ConcatFiles(Tail(download_urls)))

\* pl.concat, line 94: a frame with columns and pl.DataFrame() (line 81),
\* which has none, differ in width and pl.concat raises ShapeError
concat_raises(df, other) == ~is_empty(df) /\ is_empty(other)

\* get_complete_today_data with `return pl.DataFrame()` in the except
get_complete_today_data_dropping(filenames, today, raised) ==
    IF raised \/ get_polars_df_raises(filenames)
    THEN [yesterday_last |-> <<>>, complete_df |-> <<>>, warned |-> TRUE]
    ELSE [yesterday_last |-> <<>>, complete_df |-> today, warned |-> FALSE]

\* get_complete_today_data; raised: something in the try block of lines
\* 89-96 raises (the listing or a download fails, pl.concat rejects the two
\* frames) and line 99 returns today_df alone; warned: line 98 was printed
get_complete_today_data(filenames, today, raised) ==
    IF raised \/ get_polars_df_raises(filenames)
    THEN [yesterday_last |-> <<>>, complete_df |-> today, warned |-> TRUE]
    ELSE LET yesterday_df == get_polars_df(filenames, 1)
         IN  IF ~is_empty(yesterday_df)
             THEN IF concat_raises(tail(yesterday_df, TrailingCount), today)
                  THEN [yesterday_last |-> <<>>, complete_df |-> today, warned |-> TRUE]
                  ELSE [yesterday_last |-> tail(yesterday_df, TrailingCount),
                        complete_df |-> tail(yesterday_df, TrailingCount) \o today,
                        warned |-> FALSE]
             ELSE [yesterday_last |-> <<>>, complete_df |-> today, warned |-> FALSE]

(***************************************************************************)
(* The websocket feed.  A message is the JSON text as the parser sees it:  *)
(* whether it parses, whether it has 'k' and 't', the price as text.       *)
(***************************************************************************)
Digits ==
    "0" :> 0 @@ "1" :> 1 @@ "2" :> 2 @@ "3" :> 3 @@ "4" :> 4 @@
    "5" :> 5 @@ "6" :> 6 @@ "7" :> 7 @@ "8" :> 8 @@ "9" :> 9

IsFloatText(s) == Len(s) > 0 /\ \A i \in DOMAIN s : s[i] \in DOMAIN Digits

RECURSIVE float(_)
float(s) ==
    IF Len(s) = 0 THEN 0
    ELSE 10 * float(SubSeq(s, 1, Len(s) - 1)) + Digits[s[Len(s)]]

Kline(t, c, x) == [json |-> TRUE, has_k |-> TRUE, has_t |-> TRUE, t |-> t, c |-> c, x |-> x]

WireKlines ==
    { Kline(1000, <<"1", "0", "0">>, TRUE),
      Kline(2000, <<"1", "0", "1">>, FALSE),
      Kline(2000, <<"1", "0", "1">>, TRUE),
      Kline(3000, <<"0">>, FALSE),
      Kline(3000, <<"1", "0", "0">>, FALSE),
      Kline(3000, <<"1", "0", "1">>, FALSE),
      Kline(3000, <<"1", "0", "2">>, TRUE) }

WireMalformed ==
    { [Kline(3000, <<"1", "0", "2">>, TRUE) EXCEPT !.json = FALSE],
      [Kline(3000, <<"1", "0", "2">>, TRUE) EXCEPT !.has_k = FALSE],
      [Kline(3000, <<"1", "0", "2">>, TRUE) EXCEPT !.has_t = FALSE],
      Kline(3000, <<"1", "x", "2">>, TRUE) }

NoMessage == [Kline(0, <<>>, FALSE) EXCEPT !.json = FALSE]

\* parse_raises with data['k'] read without a check
parse_raises_unchecked_k(msg) ==
    \/ ~msg.json
    \/ ~msg.has_t
    \/ ~IsFloatText(msg.c)

\* stream_live_data, lines 110-130: json.loads, data['k'], kline['t'],
\* float(kline['c']) raise on a message they cannot read
parse_raises(msg) ==
    \/ ~msg.json
    \/ ~msg.has_k
    \/ ~msg.has_t
    \/ ~IsFloatText(msg.c)

\* stream_live_data, lines 114-130: candle_data
candle_data(msg) == [open_time |-> msg.t, close |-> float(msg.c), is_closed |-> msg.x]

(***************************************************************************)
(* ContinuousDataStreamer                                                  *)
(***************************************************************************)
\* integrate_closed_candle: new_row is appended to combined_df
\* integrate_closed_candle building the new row while the previous row's
\* close is still in place
integrate_closed_candle_torn(df, candle) ==
    IF is_empty(df)
    THEN <<Row(candle.open_time, candle.close)>>
    ELSE df \o <<Row(candle.open_time, df[Len(df)].close)>>

\* integrate_closed_candle assigning the new row in both branches
integrate_closed_candle_overwriting(df, candle) ==
    <<Row(candle.open_time, candle.close)>>

integrate_closed_candle(df, candle) ==
    LET new_row == Row(candle.open_time, candle.close)
    IN  IF is_empty(df) THEN <<new_row>> ELSE df \o <<new_row>>

\* apply_candle without the is_closed test
apply_candle_always(df, candle) == integrate_closed_candle(df, candle)

\* apply_candle with the is_closed test inverted
apply_candle_inverted(df, candle) ==
    IF ~candle.is_closed THEN integrate_closed_candle(df, candle) ELSE df

\* handle_live_candle, lines 197-199
apply_candle(df, candle) ==
    IF candle.is_closed THEN integrate_closed_candle(df, candle) ELSE df

\* handle_live_candle, lines 186-190: change / prev_close raises
\* ZeroDivisionError when the previous update's close is 0
price_change_raises(candles) ==
    Len(candles) > 1 /\ candles[Len(candles) - 1].close = 0

\* auto_save_check, line 241
\* save_data writing the newest row only
save_data_delta(written, df, ok) ==
    IF ok /\ ~is_empty(df) THEN Append(written, tail(df, 1)) ELSE written

\* save_due comparing the elapsed seconds with the interval in minutes
save_due_unscaled(t, last) == (t - last) * 60 >= SaveIntervalMinutes

save_due(t, last) == (t - last) * 60 >= SaveIntervalMinutes * 60

\* save_data: write_csv of a non-empty combined_df; an exception is caught
save_data(written, df, ok) ==
    IF ok /\ ~is_empty(df) THEN Append(written, df) ELSE written

\* save_data, lines 262-263: the write raised and "Error saving data" is printed
save_fails(df, ok) == ~ok

\* append_candle dropping an update equal to the one before it
append_candle_dedup(candles, candle) ==
    IF Len(candles) > 0 /\ candles[Len(candles)] = candle
    THEN candles
    ELSE Append(candles, candle)

\* append_candle keeping a window of the two newest updates
append_candle_windowed(candles, candle) ==
    tail(Append(candles, candle), 2)

\* handle_live_candle, line 179
append_candle(candles, candle) == Append(candles, candle)

\* ContinuousDataStreamer.__init__
StreamerInit ==
    /\ pc = "init"
    /\ files = <<>>
    /\ today_df = <<>>
    /\ yesterday_last = <<>>
    /\ trailing_raised = FALSE
    /\ combined_df = <<>>
    /\ live_candles = <<>>
    /\ now = 0
    /\ last_save_time = 0
    /\ saved = <<>>
    /\ save_errors = 0
    /\ final_saves = 0
    /\ message = NoMessage
    /\ received = 0
    /\ errors = 0
    /\ connects = 0
    /\ stream_error = "none"

\* NoToken: continuation_token = None
NoToken == 0

\* load_historical.main is not running
LoaderIdle ==
    /\ lpc = "idle"
    /\ pages = <<>>
    /\ continuation_token = NoToken
    /\ requests = <<>>
    /\ file_names = <<>>
    /\ n_files = 0
    /\ downloads = <<>>
    /\ historical_df = <<>>
    /\ table = {}
    /\ updates = <<>>
    /\ upserts = 0
    /\ db_errors = 0

Init == StreamerInit /\ LoaderIdle

\* datetime.now() advances
TickTo(max) ==
    /\ pc \in {"init", "connecting", "streaming"}
    /\ now < max
    /\ now' = now + 1
    /\ UNCHANGED <<pc, files, today_df, yesterday_last, trailing_raised, combined_df,
                   live_candles, last_save_time, saved, save_errors, final_saves,
                   message, received, errors, connects, stream_error>>
    /\ UNCHANGED loader_vars

Tick == TickTo(MaxClock)

\* run_continuous_stream, line 270: initialize_data returns
InitializeData(listings) ==
    /\ pc = "init"
    /\ \E fl \in listings, today \in TodayResponses, raised \in BOOLEAN :
         LET r == get_complete_today_data(fl, today, raised)
         IN  /\ files' = fl
             /\ today_df' = today
             /\ yesterday_last' = r.yesterday_last
             /\ trailing_raised' = r.warned
             /\ combined_df' = r.complete_df
    /\ pc' = "connecting"
    /\ UNCHANGED <<live_candles, now, last_save_time, saved, save_errors, final_saves,
                   message, received, errors, connects, stream_error>>
    /\ UNCHANGED loader_vars

\* run_continuous_stream, line 270: raise_for_status (line 39) raises and
\* the exception leaves run_continuous_stream
InitializeDataRaises ==
    /\ pc = "init"
    /\ pc' = "raised"
    /\ UNCHANGED <<files, today_df, yesterday_last, trailing_raised, combined_df,
                   live_candles, now, last_save_time, saved, save_errors, final_saves,
                   message, received, errors, connects, stream_error>>
    /\ UNCHANGED loader_vars

\* stream_live_data, line 107: websockets.connect succeeds
Connect ==
    /\ pc = "connecting"
    /\ pc' = "streaming"
    /\ connects' = connects + 1
    /\ UNCHANGED <<files, today_df, yesterday_last, trailing_raised, combined_df,
                   live_candles, now, last_save_time, saved, save_errors, final_saves,
                   message, received, errors, stream_error>>
    /\ UNCHANGED loader_vars

\* run_continuous_stream, lines 276-282: the exception of stream_live_data
\* is caught, save_data is called and the function returns
StreamRaises(why) ==
    /\ stream_error' = why
    /\ \E ok \in BOOLEAN :
         /\ saved' = save_data(saved, combined_df, ok)
         /\ save_errors' = IF save_fails(combined_df, ok) THEN save_errors + 1 ELSE save_errors
    /\ final_saves' = final_saves + 1
    /\ pc' = "returned"
    /\ UNCHANGED <<files, today_df, yesterday_last, trailing_raised, combined_df,
                   live_candles, now, last_save_time, message, received, errors>>
    /\ UNCHANGED loader_vars

\* websockets.connect raises
ConnectFails ==
    /\ pc = "connecting"
    /\ connects' = connects + 1
    /\ StreamRaises("connect_failed")

\* ConnectionLost with the subscriber connecting again by itself
ConnectionLostRetried ==
    /\ pc = "streaming"
    /\ stream_error' = "connection_lost"
    /\ connects' = connects + 1
    /\ UNCHANGED <<pc, files, today_df, yesterday_last, trailing_raised, combined_df,
                   live_candles, now, last_save_time, saved, save_errors, final_saves,
                   message, received, errors>>
    /\ UNCHANGED loader_vars

\* the connection drops while the loop of line 108 waits for a message
ConnectionLost ==
    /\ pc = "streaming"
    /\ UNCHANGED connects
    /\ StreamRaises("connection_lost")

\* the server closes the connection normally: the loop of line 108 ends,
\* stream_live_data and run_continuous_stream return
StreamEnds ==
    /\ pc = "streaming"
    /\ pc' = "returned"
    /\ UNCHANGED <<files, today_df, yesterday_last, trailing_raised, combined_df,
                   live_candles, now, last_save_time, saved, save_errors, final_saves,
                   message, received, errors, connects, stream_error>>
    /\ UNCHANGED loader_vars

\* Ctrl-C raises KeyboardInterrupt inside run_continuous_stream's try
\* (line 275): lines 276-279 save and return
Interrupt ==
    /\ pc \in {"connecting", "streaming"}
    /\ UNCHANGED connects
    /\ StreamRaises("keyboard_interrupt")

\* Ctrl-C under asyncio.run (line 368) cancels the task: CancelledError is
\* neither a KeyboardInterrupt nor an Exception and leaves run_continuous_stream
Cancelled ==
    /\ pc \in {"connecting", "streaming"}
    /\ pc' = "cancelled"
    /\ stream_error' = "cancelled"
    /\ UNCHANGED <<files, today_df, yesterday_last, trailing_raised, combined_df,
                   live_candles, now, last_save_time, saved, save_errors, final_saves,
                   message, received, errors, connects>>
    /\ UNCHANGED loader_vars

\* one iteration of the loop of line 108 on a message the parser rejects
ReceiveMalformed(max) ==
    /\ pc = "streaming"
    /\ received < max
    /\ \E msg \in WireMalformed \cup WireKlines :
         /\ parse_raises(msg)
         /\ message' = msg
    /\ received' = received + 1
    /\ errors' = errors + 1
    /\ UNCHANGED <<pc, files, today_df, yesterday_last, trailing_raised, combined_df,
                   live_candles, now, last_save_time, saved, save_errors, final_saves,
                   connects, stream_error>>
    /\ UNCHANGED loader_vars

\* one iteration of the loop of line 108 on a message that parses:
\* handle_live_candle (lines 176-202) runs to its end or to its exception,
\* which line 137 catches
ReceiveCandle(max) ==
    /\ pc = "streaming"
    /\ received < max
    /\ \E msg \in WireMalformed \cup WireKlines, ok \in BOOLEAN :
         /\ ~parse_raises(msg)
         /\ message' = msg
         /\ live_candles' = append_candle(live_candles, candle_data(msg))
         /\ IF price_change_raises(live_candles')
            THEN /\ errors' = errors + 1
                 /\ UNCHANGED <<combined_df, last_save_time, saved, save_errors>>
            ELSE /\ combined_df' = apply_candle(combined_df, candle_data(msg))
                 /\ errors' = errors
                 /\ IF save_due(now, last_save_time)
                    THEN /\ saved' = save_data(saved, combined_df', ok)
                         /\ save_errors' = IF save_fails(combined_df', ok)
                                           THEN save_errors + 1 ELSE save_errors
                         /\ last_save_time' = now
                    ELSE UNCHANGED <<last_save_time, saved, save_errors>>
    /\ received' = received + 1
    /\ UNCHANGED <<pc, files, today_df, yesterday_last, trailing_raised, now,
                   final_saves, connects, stream_error>>
    /\ UNCHANGED loader_vars

Next ==
    \/ Tick
    \/ InitializeData(Listings)
    \/ InitializeDataRaises
    \/ Connect
    \/ ConnectFails
    \/ ConnectionLost
    \/ StreamEnds
    \/ Interrupt
    \/ Cancelled
    \/ ReceiveMalformed(MaxUpdates)
    \/ ReceiveCandle(MaxUpdates)

\* the whole pipeline, over every archive listing
Spec == Init /\ [][Next]_vars

\* the pipeline when the archive lists no file (get_polars_df raises and the
\* seed is the same-day data), with a longer feed
NextFeed ==
    \/ Tick
    \/ InitializeData({<<>>})
    \/ InitializeDataRaises
    \/ Connect
    \/ ConnectFails
    \/ ConnectionLost
    \/ StreamEnds
    \/ Interrupt
    \/ Cancelled
    \/ ReceiveMalformed(MaxFeedUpdates)
    \/ ReceiveCandle(MaxFeedUpdates)

SpecFeed == Init /\ [][NextFeed]_vars

\* the pipeline when the archive lists no file, over two save intervals
NextSave ==
    \/ TickTo(MaxSaveClock)
    \/ InitializeData({<<>>})
    \/ InitializeDataRaises
    \/ Connect
    \/ ConnectFails
    \/ ConnectionLost
    \/ StreamEnds
    \/ Interrupt
    \/ Cancelled
    \/ ReceiveMalformed(MaxSaveUpdates)
    \/ ReceiveCandle(MaxSaveUpdates)

SpecSave == Init /\ [][NextSave]_vars

(***************************************************************************)
(* src/load_historical.py: the DuckDB table klines and upsert_data.  The   *)
(* table is the set of its rows; open_time is its PRIMARY KEY.             *)
(***************************************************************************)
UpsertRows == {Row(t, c) : t \in {1000, 2000}, c \in {100, 101}}

\* the DataFrames handed to upsert_data
Snapshots == UNION {[1 .. n -> UpsertRows] : n \in 0 .. MaxRows}

\* the tables that create_table_if_not_exists can find: one row per open_time
Tables ==
    {tb \in SUBSET UpsertRows :
        \A r \in tb : \A q \in tb : r.open_time = q.open_time => r = q}

\* upsert_data, line 54: the table that the SET clause takes the new values from
SetClauseSource == "updates"

\* the tables that an expression of ON CONFLICT ... DO UPDATE SET can name:
\* the target table, for the stored row, and excluded, for the proposed row;
\* the FROM clause of the inserted SELECT is not in its scope
SetClauseScope == {"klines", "excluded"}

\* the last row of df for open_time t
LastRow(df, t) ==
    df[CHOOSE i \in RowsAt(df, t) : \A j \in RowsAt(df, t) : j <= i]

\* INSERT INTO klines SELECT * FROM updates ON CONFLICT (open_time) DO UPDATE
\* SET every other column to the proposed row's value
insert_on_conflict(tb, df) ==
    {r \in tb : r.open_time \notin Keys(df)} \cup {LastRow(df, t) : t \in Keys(df)}

\* con.execute(upsert_sql), line 65, raises: the SET clause does not bind,
\* or two rows of df propose the same open_time
execute_raises(df) ==
    \/ SetClauseSource \notin SetClauseScope
    \/ \E t \in Keys(df) : Cardinality(RowsAt(df, t)) > 1

\* upsert_data: the table after the call, and whether the call raised
upsert_data(tb, df) ==
    IF is_empty(df)
    THEN [table |-> tb, raised |-> FALSE]
    ELSE IF execute_raises(df)
         THEN [table |-> tb, raised |-> TRUE]
         ELSE [table |-> insert_on_conflict(tb, df), raised |-> FALSE]

\* a connection to a database that holds the table klines
InitUpsert ==
    /\ StreamerInit
    /\ lpc = "db"
    /\ pages = <<>>
    /\ continuation_token = NoToken
    /\ requests = <<>>
    /\ file_names = <<>>
    /\ n_files = 0
    /\ downloads = <<>>
    /\ historical_df = <<>>
    /\ table \in Tables
    /\ updates = <<>>
    /\ upserts = 0
    /\ db_errors = 0

\* one call upsert_data(con, df)
UpsertData ==
    /\ lpc = "db"
    /\ upserts < MaxUpserts
    /\ \E df \in Snapshots :
         LET r == upsert_data(table, df)
         IN  /\ updates' = df
             /\ table' = r.table
             /\ db_errors' = IF r.raised THEN db_errors + 1 ELSE db_errors
    /\ upserts' = upserts + 1
    /\ UNCHANGED <<lpc, pages, continuation_token, requests, file_names, n_files,
                   downloads, historical_df>>
    /\ UNCHANGED streamer_vars

NextUpsert == UpsertData

\* upsert_data called on a database any number of times
SpecUpsert == InitUpsert /\ [][NextUpsert]_vars

(***************************************************************************)
(* src/load_historical.py, main: the archive is listed page by page        *)
(* (get_file_list_from_s3_bucket), the files are downloaded                *)
(* (get_polars_df) and the rows are upserted.  A key of the listing is a   *)
(* daily file or its checksum; a continuation token is the number of the   *)
(* page it asks for.                                                       *)
(***************************************************************************)
Zip(d) == [day |-> d, ext |-> "zip"]

Checksum(d) == [day |-> d, ext |-> "zip.CHECKSUM"]

\* key.endswith(".zip")
endswith_zip(key) == key.ext = "zip"

\* the files appended to filenames for one page, lines 70-73
RECURSIVE zip_files(_)
zip_files(keys) ==
    IF Len(keys) = 0 THEN <<>>
    ELSE (IF endswith_zip(Head(keys)) THEN <<Head(keys).day>> ELSE <<>>)
         \o zip_files(Tail(keys))

RECURSIVE insort(_, _)
insort(names, x) ==
    IF Len(names) = 0 THEN <<x>>
    ELSE IF x < Head(names) THEN <<x>> \o names
         ELSE <<Head(names)>> \o insort(Tail(names), x)

\* filenames left in the order of the pages
unsorted(names) == names

\* filenames.sort(), line 97
RECURSIVE sorted(_)
sorted(names) ==
    IF Len(names) = 0 THEN <<>>
    ELSE insort(sorted(SubSeq(names, 1, Len(names) - 1)), names[Len(names)])

\* the text of the IsTruncated element, "absent" when the page has none
IsTruncatedTexts == {"true", "True", "false", "absent"}

\* str.lower()
lower(text) == IF text = "True" THEN "true" ELSE text

\* lines 86-87
is_truncated(page) == page.is_truncated # "absent" /\ lower(page.is_truncated) = "true"

PageKeys == {<<>>, <<Zip(1)>>, <<Zip(2), Checksum(2)>>, <<Zip(2), Zip(1)>>}

\* the listings of the server: a chain of pages, the token of a page, if it
\* has one, asking for the page after it, and no key listed twice
S3Listings ==
    {ps \in UNION {[1 .. n -> [keys : PageKeys, is_truncated : IsTruncatedTexts,
                               next_token : 0 .. MaxPages]] : n \in 1 .. MaxPages} :
        /\ \A i \in DOMAIN ps :
             ps[i].next_token \in (IF i < Len(ps) THEN {NoToken, i + 1} ELSE {NoToken})
        /\ \A i \in DOMAIN ps : \A j \in DOMAIN ps :
             i < j => \A a \in DOMAIN ps[i].keys : \A c \in DOMAIN ps[j].keys :
                          ps[i].keys[a] # ps[j].keys[c]}

\* the page the server answers a request with, lines 61-67
response(ps, token) == ps[IF token # NoToken THEN token ELSE 1]

\* the files read by download_file in get_polars_df, in order: line 180
\* reads download_urls[0], lines 190-191 read download_urls[:nfiles][1:]
downloaded_urls(names, n) ==
    LET download_urls == IF n = NoLimit THEN names ELSE Slice(names, n)
    IN  <<names[1]>> \o (IF Len(download_urls) = 0 THEN <<>> ELSE Tail(download_urls))

\* main is started: NUMBER_OF_DAYS_TO_DOWNLOAD is configured, the server
\* holds a listing, the database holds a table
InitLoad ==
    /\ StreamerInit
    /\ lpc = "listing"
    /\ pages \in S3Listings
    /\ continuation_token = NoToken
    /\ requests = <<>>
    /\ file_names = <<>>
    /\ n_files \in 1 .. MaxDays
    /\ downloads = <<>>
    /\ historical_df = <<>>
    /\ table \in {{}, {Row(1000, 100)}}
    /\ updates = <<>>
    /\ upserts = 0
    /\ db_errors = 0

\* one iteration of the loop of line 52
ListPage ==
    /\ lpc = "listing"
    /\ LET page == response(pages, continuation_token)
           names == file_names \o zip_files(page.keys)
       IN  /\ requests' = Append(requests, continuation_token)
           /\ IF is_truncated(page) /\ page.next_token # NoToken
              THEN /\ continuation_token' = page.next_token
                   /\ file_names' = names
                   /\ lpc' = "listing"
              ELSE /\ continuation_token' = continuation_token
                   /\ file_names' = sorted(names)
                   /\ lpc' = "listed"
    /\ UNCHANGED <<pages, n_files, downloads, historical_df, table, updates,
                   upserts, db_errors>>
    /\ UNCHANGED streamer_vars

\* raise_for_status, line 65, raises and the exception leaves main
ListPageRaises ==
    /\ lpc = "listing"
    /\ lpc' = "raised"
    /\ UNCHANGED <<pages, continuation_token, requests, file_names, n_files,
                   downloads, historical_df, table, updates, upserts, db_errors>>
    /\ UNCHANGED streamer_vars

\* get_polars_df from line 176 on: IndexError on an empty listing leaves
\* main, otherwise the files are read and concatenated
Download ==
    /\ lpc = "listed"
    /\ IF get_polars_df_raises(file_names)
       THEN /\ lpc' = "raised"
            /\ UNCHANGED <<downloads, historical_df>>
       ELSE /\ downloads' = downloaded_urls(file_names, n_files)
            /\ historical_df' = get_polars_df(file_names, n_files)
            /\ lpc' = "downloaded"
    /\ UNCHANGED <<pages, continuation_token, requests, file_names, n_files,
                   table, updates, upserts, db_errors>>
    /\ UNCHANGED streamer_vars

\* main, lines 87-115
LoadIntoDb ==
    /\ lpc = "downloaded"
    /\ IF is_empty(historical_df)
       THEN UNCHANGED <<table, updates, upserts, db_errors>>
       ELSE LET r == upsert_data(table, historical_df)
            IN  /\ table' = r.table
                /\ updates' = historical_df
                /\ upserts' = upserts + 1
                /\ db_errors' = IF r.raised THEN db_errors + 1 ELSE db_errors
    /\ lpc' = "finished"
    /\ UNCHANGED <<pages, continuation_token, requests, file_names, n_files,
                   downloads, historical_df>>
    /\ UNCHANGED streamer_vars

NextLoad ==
    \/ ListPage
    \/ ListPageRaises
    \/ Download
    \/ LoadIntoDb

\* one run of load_historical.main; the program takes its next step as
\* long as it has one
SpecLoad == InitLoad /\ [][NextLoad]_vars /\ WF_vars(NextLoad)

(***************************************************************************)
(* Properties                                                              *)
(***************************************************************************)
\* the series as seeded by initialize_data
Seeded == yesterday_last \o today_df

OnePerKey(df) == \A t \in Keys(df) : Cardinality(RowsAt(df, t)) = 1

AllClosed == \A i \in DOMAIN live_candles : live_candles[i].is_closed

\* the update handled last for open_time t
LastApplied(t) ==
    LET I == {i \in DOMAIN live_candles : live_candles[i].open_time = t}
    IN  live_candles[CHOOSE i \in I : \A j \in I : j <= i]

\* a step that is one call of handle_live_candle
Handled == Len(live_candles') = Len(live_candles) + 1

\* the update that a Handled step handles
Update == live_candles'[Len(live_candles')]

\* C1: last-write-wins.  After any sequence of closed updates applied to a
\* series seeded with one row per open_time, combined_df holds exactly one
\* row for every open_time seeded or handled, and for a handled open_time
\* the row carries the values of the update handled last for it.
C1_LastWriteWins ==
    (pc # "init" /\ OnePerKey(Seeded) /\ AllClosed) =>
        \A t \in Keys(Seeded) \cup Keys(live_candles) :
            /\ Cardinality(RowsAt(combined_df, t)) = 1
            /\ t \in Keys(live_candles) =>
                 \A i \in RowsAt(combined_df, t) :
                     combined_df[i].close = LastApplied(t).close

\* C2: idempotence.  Handling an update equal to the one handled just
\* before it leaves combined_df as the first handling left it.
C2_Idempotent ==
    [][(Handled /\ Len(live_candles) >= 1 /\ Update = live_candles[Len(live_candles)])
          => combined_df' = combined_df]_vars

\* C3: ordering.  A series seeded in strictly ascending open_time order
\* stays in strictly ascending open_time order, whatever the order of the
\* updates.
C3_Ascending ==
    (pc # "init" /\ StrictlyAscending(Seeded)) => StrictlyAscending(combined_df)

\* the rows of df whose open_time is not t, in order
RECURSIVE Without(_, _)
Without(df, t) ==
    IF Len(df) = 0 THEN <<>>
    ELSE IF Head(df).open_time = t THEN Without(Tail(df), t)
         ELSE <<Head(df)>> \o Without(Tail(df), t)

\* C4: frame of apply.  One closed update with a new open_time adds that
\* key and changes no other row; one closed update with an open_time
\* already present keeps the key set and the number of rows and changes no
\* row of another key.
C4_Frame ==
    [][(Handled /\ Update.is_closed) =>
          /\ Without(combined_df', Update.open_time) = Without(combined_df, Update.open_time)
          /\ Update.open_time \in Keys(combined_df')
          /\ Update.open_time \in Keys(combined_df) =>
               /\ Keys(combined_df') = Keys(combined_df)
               /\ Len(combined_df') = Len(combined_df)]_vars

ScenarioASeed == <<Row(1000, 100), Row(2000, 100)>>

ScenarioAUpdate == [open_time |-> 2000, close |-> 101, is_closed |-> FALSE]

\* the state of scenario A: seeded with 1000 and 2000, one forming update
\* at 2000 handled
ScenarioA ==
    /\ pc = "streaming"
    /\ Seeded = ScenarioASeed
    /\ live_candles = <<ScenarioAUpdate>>

ScenarioBUpdates ==
    << [open_time |-> 3000, close |-> 100, is_closed |-> FALSE],
       [open_time |-> 3000, close |-> 101, is_closed |-> FALSE],
       [open_time |-> 3000, close |-> 102, is_closed |-> TRUE] >>

\* C6: scenario B.  After the updates forming 100, forming 101, closed 102
\* at 3000, on a series seeded without 3000, combined_df holds a single
\* row at 3000, its close is 102, and it is the last row appended.
C6_ScenarioB ==
    (3000 \notin Keys(Seeded) /\ live_candles = ScenarioBUpdates) =>
        /\ Cardinality(RowsAt(combined_df, 3000)) = 1
        /\ \A i \in RowsAt(combined_df, 3000) : combined_df[i].close = 102
        /\ combined_df = Seeded \o <<Row(3000, 102)>>

C6_Witness == live_candles = ScenarioBUpdates /\ pc = "streaming"

\* C7: reconnect.  A connection loss never ends ingestion: after it the
\* orchestrator is connecting again or streaming.
C7_Reconnects ==
    stream_error = "connection_lost" => pc \in {"connecting", "streaming"}

\* C8: scenario D.  For every open_time that the trailing-context rows and
\* the same-day rows share, the seeded series holds exactly one row and it
\* carries the same-day values.
C8_SameDayWins ==
    (pc = "connecting" /\ live_candles = <<>>) =>
        \A t \in Keys(yesterday_last) \cap Keys(today_df) :
            /\ Cardinality(RowsAt(combined_df, t)) = 1
            /\ \A i \in RowsAt(combined_df, t) : \A j \in RowsAt(today_df, t) :
                   combined_df[i].close = today_df[j].close

\* C9: provenance of the seed.  The trailing context is at most
\* TrailingCount rows, the last rows of the chronologically latest file of
\* the listing, and the seed is those rows followed by the same-day rows.
C9_TrailingFromLatest ==
    (pc = "connecting" /\ yesterday_last # <<>>) =>
        /\ Len(yesterday_last) <= TrailingCount
        /\ yesterday_last = tail(FileRows(files[Len(files)]), TrailingCount)
        /\ combined_df = yesterday_last \o today_df

\* a message that json.loads rejects, that lacks 'k' or 't', or whose
\* price is not a number
Malformed(msg) == ~msg.json \/ ~msg.has_k \/ ~msg.has_t \/ ~IsFloatText(msg.c)

\* a step that reads one message off the websocket
Reads == received' = received + 1

\* C10: a malformed message is logged and skipped.  Reading one adds an
\* error line, delivers no update, leaves the series, the buffer and the
\* saved files unchanged and keeps the stream open; the well-formed
\* message read next is delivered to the callback.
C10_MalformedSkipped ==
    [][/\ (Reads /\ Malformed(message')) =>
            /\ errors' = errors + 1
            /\ live_candles' = live_candles
            /\ combined_df' = combined_df
            /\ saved' = saved
            /\ pc' = "streaming"
       /\ (Reads /\ Malformed(message) /\ received >= 1 /\ ~Malformed(message')) =>
            /\ live_candles' = Append(live_candles, candle_data(message'))
            /\ pc' = "streaming"]_vars

\* a well-formed message was handled right after a malformed one
C10_Witness ==
    /\ received = 2
    /\ errors = 1
    /\ ~Malformed(message)
    /\ Len(live_candles) = 1
    /\ live_candles[1] = candle_data(message)
    /\ pc = "streaming"

\* C11: delivery order.  Every read of a well-formed message calls the
\* callback once with that message's update, after the updates of all the
\* messages read before it and before the next message is read: the buffer
\* of handled updates grows by exactly that update at its end, keeps the
\* earlier ones in place, and changes in no other step.
C11_DeliveryOrder ==
    [][/\ (Reads /\ ~Malformed(message')) =>
            /\ Len(live_candles') = Len(live_candles) + 1
            /\ \A i \in DOMAIN live_candles : live_candles'[i] = live_candles[i]
            /\ live_candles'[Len(live_candles')] =
                 [open_time |-> message'.t, close |-> float(message'.c),
                  is_closed |-> message'.x]
       /\ ~Reads => live_candles' = live_candles]_vars

\* three well-formed messages, the first two equal, were delivered in order
C11_Witness ==
    /\ received = 3
    /\ errors = 0
    /\ Len(live_candles) = 3
    /\ live_candles[1] = live_candles[2]
    /\ live_candles[2] # live_candles[3]
    /\ live_candles[3] = candle_data(message)

\* C12: connection loss is reported, not retried, by the subscriber.  When
\* websockets.connect fails or the connection drops, stream_live_data has
\* raised to run_continuous_stream, which has taken its except branch and
\* returned, and websockets.connect was called once only.
C12_NotRetried ==
    /\ connects <= 1
    /\ stream_error \in {"connect_failed", "connection_lost"} =>
         /\ connects = 1
         /\ pc = "returned"

\* the connection dropped after a message had been handled
C12_Witness ==
    /\ stream_error = "connection_lost"
    /\ Len(live_candles) >= 1
    /\ connects = 1
    /\ pc = "returned"

\* C13: periodic snapshot.  While the stream is open a save is made at
\* every tick of the save_interval_minutes period, whether or not a message
\* arrives: time does not move on from an instant at which a save is due
\* before that save has been made.
C13_PeriodicSnapshot ==
    [][(pc = "streaming" /\ now' > now) => ~save_due(now, last_save_time)]_vars

\* a step in which save_data reports that its write raised
SaveFailed == save_errors' = save_errors + 1

\* C14: a failed save is reported and recovered locally.  When the write of
\* a periodic save raises, the series is what the update being handled made
\* it (a closed update is there as its last row), no file is written, and
\* the stream stays open; after a failure the next handler that finds a
\* save due attempts it again, and every file written holds the whole
\* series as it stands.
C14_SaveFailureRecovered ==
    [][/\ (Handled /\ SaveFailed) =>
            /\ combined_df' = IF Update.is_closed
                              THEN combined_df \o <<Row(Update.open_time, Update.close)>>
                              ELSE combined_df
            /\ saved' = saved
            /\ pc' = "streaming"
       /\ (Handled /\ save_errors >= 1 /\ errors' = errors
             /\ save_due(now, last_save_time)) =>
            /\ last_save_time' = now
            /\ \/ saved' = Append(saved, combined_df')
               \/ SaveFailed
               \/ combined_df' = <<>>
       /\ saved' # saved => saved' = Append(saved, combined_df')]_vars

\* the save of the first closed update failed, the save attempted one
\* period later wrote the series with both closed updates in it
C14_Witness ==
    /\ pc = "streaming"
    /\ save_errors = 1
    /\ last_save_time = 2 * SaveIntervalMinutes
    /\ Len(live_candles) = 2
    /\ AllClosed
    /\ Len(combined_df) = Len(Seeded) + 2
    /\ saved = <<combined_df>>

\* C15: drain before exit.  run_continuous_stream is never left, whether
\* the stream ended by itself or a shutdown was requested, without exactly
\* one final save_data call having been made by it, and a shutdown makes
\* no further connection attempt.
C15_DrainBeforeExit ==
    /\ pc \in {"returned", "cancelled"} => final_saves = 1
    /\ final_saves <= 1
    /\ stream_error \in {"keyboard_interrupt", "cancelled"} => connects <= 1

\* C16: the backfill does not fail on missing data.  When the same-day
\* request yields no rows get_complete_today_data returns the empty frame,
\* and when fetching the trailing context raises it returns exactly the
\* same-day rows, with the warning printed.
C16_BackfillDegrades ==
    (pc = "connecting" /\ live_candles = <<>>) =>
        /\ today_df = <<>> => combined_df = <<>>
        /\ trailing_raised => combined_df = today_df

\* the trailing context could be listed but fetching it raised, and the
\* seed is the same-day rows
C16_Witness ==
    /\ pc = "connecting"
    /\ files # <<>>
    /\ trailing_raised
    /\ today_df # <<>>
    /\ combined_df = today_df

\* C17: an unavailable backfill is not fatal.  When the same-day request of
\* the startup backfill raises, run_continuous_stream goes on with an empty
\* or partial seed and starts the live stream: it is never left by that
\* exception.
C17_BackfillNotFatal ==
    pc # "raised"

\* C18: a startup failure is reported.  When the backfill left the series
\* empty and the first connection attempt failed, run_continuous_stream
\* does not return normally.
C18_StartupFailureReported ==
    (stream_error = "connect_failed" /\ combined_df = <<>>) => pc # "returned"

\* the rows of df for open_time t, in order
RowsOf(df, t) == SelectSeq(df, LAMBDA r : r.open_time = t)

\* C19: a stored candle is never deleted.  Once the series is seeded, every
\* open_time it holds is still held after every step, and the rows of an
\* open_time change only in the step that handles a closed update bearing
\* that open_time.
C19_NeverDeleted ==
    [][pc # "init" =>
         /\ Keys(combined_df) \subseteq Keys(combined_df')
         /\ \A t \in Keys(combined_df') :
              RowsOf(combined_df', t) # RowsOf(combined_df, t) =>
                  (Handled /\ Update.is_closed /\ Update.open_time = t)]_vars

\* a seeded series has taken two closed updates and holds all of it
C19_Witness ==
    /\ pc = "streaming"
    /\ Seeded # <<>>
    /\ Len(combined_df) = Len(Seeded) + 2
    /\ Keys(Seeded) \subseteq Keys(combined_df)
    /\ Keys(live_candles) \subseteq Keys(combined_df)

\* the series after its first n rows were seeded or applied
SeriesAfter(n) == SubSeq(combined_df, 1, n)

\* C20: snapshots and applies are serialized.  Every file written holds
\* the series as it stood after a whole number of applies: the seed
\* followed by the rows of the first closed updates applied, each row being
\* the open_time and close of one update; and a closed update whose handler
\* does not raise is in the series after its step, whether or not that
\* step also saved.
C20_SnapshotSerialized ==
    [][/\ \A k \in DOMAIN saved' :
            /\ Len(saved'[k]) >= Len(Seeded')
            /\ Len(saved'[k]) <= Len(combined_df')
            /\ \A i \in DOMAIN saved'[k] : saved'[k][i] = combined_df'[i]
            /\ \A i \in (Len(Seeded') + 1) .. Len(saved'[k]) :
                   \E j \in DOMAIN live_candles' :
                       /\ live_candles'[j].is_closed
                       /\ saved'[k][i] = Row(live_candles'[j].open_time,
                                             live_candles'[j].close)
       /\ (Handled /\ Update.is_closed /\ errors' = errors) =>
            combined_df' = combined_df \o <<Row(Update.open_time, Update.close)>>]_vars

\* a periodic save wrote the seed and the first closed update, then a
\* second closed update was applied
C20_Witness ==
    /\ pc = "streaming"
    /\ last_save_time = SaveIntervalMinutes
    /\ Len(combined_df) = Len(Seeded) + 2
    /\ Len(saved) = 1
    /\ saved[1] = SeriesAfter(Len(Seeded) + 1)

\* C22: every closed update delivered to handle_live_candle is integrated.
\* The step that handles a closed update adds exactly one row, with the
\* update's open_time and values, at the end of combined_df, whatever the
\* updates handled before it and whether or not a save is due.
C22_ClosedIntegrated ==
    [][(Handled /\ Update.is_closed) =>
          combined_df' = combined_df \o <<Row(Update.open_time, Update.close)>>]_vars

\* C23: a forming update touches the buffer only.  The step that handles
\* an update with is_closed = false leaves combined_df as it was; and every
\* delivered update, forming or closed, is appended to live_candles, which
\* is never trimmed: its length is the number of messages read less the
\* number the parser rejected.
C23_FormingBuffered ==
    [][/\ (Handled /\ ~Update.is_closed) => combined_df' = combined_df
       /\ (Reads /\ ~Malformed(message')) =>
            live_candles' = Append(live_candles, candle_data(message'))
       /\ (Reads /\ Malformed(message')) => live_candles' = live_candles
       /\ Len(live_candles') >= Len(live_candles)
       /\ Len(live_candles') <= received']_vars

\* three updates were handled, the last one forming, over a seeded series
\* that none of them changed
C23_Witness ==
    /\ Len(live_candles) = 3
    /\ received = 3
    /\ ~live_candles[3].is_closed
    /\ Seeded # <<>>
    /\ combined_df = Seeded

\* a step in which auto_save_check calls save_data
SaveAttempted == last_save_time' # last_save_time

\* C24: timing of auto_save_check.  A handler that reaches auto_save_check
\* calls save_data exactly when save_interval_minutes have elapsed since
\* last_save_time, and then last_save_time is the current time, whatever
\* the write did; otherwise last_save_time, the files and the error lines
\* stay.  So consecutive attempts are at least one interval apart and none
\* is made before the first interval after construction.
C24_SaveTiming ==
    [][/\ (Handled /\ errors' = errors) =>
            IF now - last_save_time >= SaveIntervalMinutes
            THEN /\ last_save_time' = now
                 /\ \/ saved' = Append(saved, combined_df')
                    \/ SaveFailed /\ saved' = saved
                    \/ combined_df' = <<>> /\ saved' = saved
            ELSE /\ last_save_time' = last_save_time
                 /\ saved' = saved
                 /\ save_errors' = save_errors
       /\ SaveAttempted =>
            /\ last_save_time' - last_save_time >= SaveIntervalMinutes
            /\ last_save_time' >= SaveIntervalMinutes]_vars

\* two attempts were made one interval apart, the first written and the
\* second failed
C24_Witness ==
    /\ pc = "streaming"
    /\ last_save_time = 2 * SaveIntervalMinutes
    /\ final_saves = 0
    /\ Len(saved) = 1
    /\ save_errors = 1
    /\ Len(saved[1]) < Len(combined_df)

\* a step that is one call of upsert_data
Upserted == upserts' = upserts + 1

\* C21: upsert_data inserts or replaces by open_time.  After a call the
\* table holds one row per open_time, the row of every open_time of df is
\* df's row, the rows of the other open_times are as before, a second call
\* with the same df leaves the table as the first left it, and an empty df
\* leaves the table as it was.
C21_InsertOrReplace ==
    [][Upserted =>
         /\ \A r \in table' : \A q \in table' : r.open_time = q.open_time => r = q
         /\ \A t \in Keys(updates') : LastRow(updates', t) \in table'
         /\ \A r \in table : r.open_time \notin Keys(updates') => r \in table'
         /\ \A r \in table' : r.open_time \notin Keys(updates') => r \in table
         /\ (upserts >= 1 /\ updates' = updates) => table' = table
         /\ updates' = <<>> => table' = table]_vars

\* C25: get_polars_df(nfiles = n) loads the n latest files.  When
\* get_polars_df has returned, the files it read are the last n of the
\* sorted listing (all of them when there are fewer), each read once and no
\* other, and the frame returned holds their rows.
C25_LatestFiles ==
    lpc \in {"downloaded", "finished"} =>
        LET latest == tail(file_names, n_files)
        IN  /\ Len(downloads) = Len(latest)
            /\ {downloads[i] : i \in DOMAIN downloads} = {latest[i] : i \in DOMAIN latest}
            /\ historical_df = ConcatFiles(latest)

\* a page after which the listing goes on: truncated and carrying a token
Continues(page) == page.is_truncated \in {"true", "True"} /\ page.next_token # NoToken

\* the days of the '.zip' keys of the first k pages
ZipDays(k) ==
    UNION {{pages[i].keys[j].day : j \in {n \in DOMAIN pages[i].keys :
                                            pages[i].keys[n].ext = "zip"}} : i \in 1 .. k}

\* C26: pagination of the archive listing.  The first request carries no
\* continuation token and every further one the NextContinuationToken of
\* the page before it; the loop ends at the first page that is not
\* truncated or carries no token, which it reaches; the list returned
\* holds exactly the '.zip' keys of the pages fetched, in ascending order.
C26_Pagination ==
    /\ [](/\ Len(requests) >= 1 => requests[1] = NoToken
          /\ \A i \in 2 .. Len(requests) :
               /\ Continues(pages[i - 1])
               /\ requests[i] = pages[i - 1].next_token
          /\ lpc \in {"listed", "downloaded", "finished"} =>
               /\ Len(requests) >= 1
               /\ ~Continues(pages[Len(requests)])
               /\ \A i \in DOMAIN file_names : \A j \in DOMAIN file_names :
                      i < j => file_names[i] <= file_names[j]
               /\ {file_names[i] : i \in DOMAIN file_names} = ZipDays(Len(requests))
               /\ Len(file_names) = Cardinality(ZipDays(Len(requests))))
    /\ <>(lpc # "listing")

\* two pages were fetched, the later file on the first page and beside a
\* checksum key, and the list returned is the two files in order
C26_Witness ==
    /\ lpc = "listed"
    /\ requests = <<NoToken, 2>>
    /\ pages[1].keys = <<Zip(2), Checksum(2)>>
    /\ pages[2].keys = <<Zip(1)>>
    /\ file_names = <<1, 2>>

====
